---- MODULE Spec2Model ----
(***************************************************************************)
(* Model of the telemetry pipeline of IrrigoDash (src/app.py):             *)
(* process_data loads ~/telemetria.csv, converts, filters by date,         *)
(* resamples each sensor to one-minute buckets with linear interpolation,  *)
(* caps the series at MAX_POINTS points and summarises it.                 *)
(*                                                                         *)
(* Time is counted in seconds from 00:00:00 of calendar day 0; a calendar  *)
(* date is a day number.  Sensor values are exact rationals <<num, den>>   *)
(* (den > 0, lowest terms); NaN is the empty tuple.                        *)
(***************************************************************************)
EXTENDS Integers, Sequences, FiniteSets, TLC

VARIABLES csv, call, seen

vars == <<csv, call, seen>>

(***************************************************************************)
(* Program constants                                                       *)
(***************************************************************************)
SENSORS == <<"pressure", "temperature", "humidity", "env_pressure">>

MAX_POINTS == 300

MINUTE == 60

DAY == 86400

(***************************************************************************)
(* Bounds of the model                                                     *)
(***************************************************************************)
MaxRows == 2

(***************************************************************************)
(* Exact arithmetic on values                                              *)
(***************************************************************************)
NaN == << >>

None == [kind |-> "None", v |-> 0]

EmptyString == [kind |-> "empty", v |-> 0]

BadDate == [kind |-> "junk", v |-> 0]

Date(d) == [kind |-> "date", v |-> d]

Timestamp(t) == [kind |-> "timestamp", v |-> t]

Abs(x) == IF x < 0 THEN -x ELSE x

RECURSIVE Gcd(_, _)
Gcd(a, b) == IF b = 0 THEN a ELSE Gcd(b, a % b)

Rat(n, d) ==
  LET g == Gcd(Abs(n), d)
  IN  IF n = 0 THEN <<0, 1>> ELSE <<n \div g, d \div g>>

Lcm(a, b) == (a \div Gcd(a, b)) * b

RAdd(a, b) ==
  LET d == Lcm(a[2], b[2])
  IN  Rat(a[1] * (d \div a[2]) + b[1] * (d \div b[2]), d)

RSub(a, b) ==
  LET d == Lcm(a[2], b[2])
  IN  Rat(a[1] * (d \div a[2]) - b[1] * (d \div b[2]), d)

RMulFrac(a, k, g) == Rat(a[1] * k, a[2] * g)

RLess(a, b) == a[1] * b[2] < b[1] * a[2]

(* Sum, minimum and maximum of s[lo .. hi] (lo <= hi), by halves *)
RECURSIVE RangeSum(_, _, _)
RangeSum(s, lo, hi) ==
  IF lo = hi THEN s[lo]
  ELSE LET mid == (lo + hi) \div 2
       IN  RAdd(RangeSum(s, lo, mid), RangeSum(s, mid + 1, hi))

RECURSIVE RangeMin(_, _, _)
RangeMin(s, lo, hi) ==
  IF lo = hi THEN s[lo]
  ELSE LET mid == (lo + hi) \div 2
           a == RangeMin(s, lo, mid)
           b == RangeMin(s, mid + 1, hi)
       IN  IF RLess(b, a) THEN b ELSE a

RECURSIVE RangeMax(_, _, _)
RangeMax(s, lo, hi) ==
  IF lo = hi THEN s[lo]
  ELSE LET mid == (lo + hi) \div 2
           a == RangeMax(s, lo, mid)
           b == RangeMax(s, mid + 1, hi)
       IN  IF RLess(a, b) THEN b ELSE a

SeqMin(s) == RangeMin(s, 1, Len(s))

SeqMax(s) == RangeMax(s, 1, Len(s))

SeqMean(s) == RMulFrac(RangeSum(s, 1, Len(s)), 1, Len(s))

EmptyDict == [k \in {} |-> NaN]

(***************************************************************************)
(* The CSV file at CSV_PATH and its cells                                  *)
(*                                                                         *)
(* A file is missing, unparseable, or a table: a set of column names and a *)
(* sequence of rows, each a function from the column names to raw cells.   *)
(* A timestamp cell is a time in seconds, or BadTime for text that is no   *)
(* date-time.  Any other cell is raw text: a number, blank, or other text. *)
(***************************************************************************)
NoFile == [kind |-> "missing", columns |-> {}, rows |-> << >>]

Garbage == [kind |-> "garbage", columns |-> {}, rows |-> << >>]

Table(cols, rows) == [kind |-> "table", columns |-> cols, rows |-> rows]

BadTime == 0 - 1

Num(k) == [text |-> "num", v |-> k]

Blank == [text |-> "", v |-> 0]

Junk == [text |-> "n/a", v |-> 0]

SensorIds == {SENSORS[i] : i \in DOMAIN SENSORS}

(***************************************************************************)
(* Steps of process_data.  A step that can raise returns its error text in *)
(* the field err ("" when it did not raise).                               *)
(***************************************************************************)
read_csv(file) ==
  CASE file.kind = "missing" -> [err |-> "No such file or directory", df |-> << >>, columns |-> {}]
    [] file.kind = "garbage" -> [err |-> "Error tokenizing data", df |-> << >>, columns |-> {}]
    [] OTHER -> [err |-> "", df |-> file.rows, columns |-> file.columns]

to_datetime_error(columns, df) ==
  IF "timestamp" \notin columns THEN "'timestamp'"
  ELSE IF \E i \in DOMAIN df : df[i]["timestamp"] = BadTime
       THEN "Unknown datetime string format"
       ELSE ""

to_numeric(cell) == IF cell.text = "num" THEN <<cell.v, 1>> ELSE NaN

ConvertSensors(columns, df) ==
  [i \in DOMAIN df |->
     [c \in columns |-> IF c \in SensorIds THEN to_numeric(df[i][c]) ELSE df[i][c]]]

InsertByTimestamp(s, r) ==
  LET before == SelectSeq(s, LAMBDA x : x["timestamp"] <= r["timestamp"])
      after == SelectSeq(s, LAMBDA x : x["timestamp"] > r["timestamp"])
  IN  before \o <<r>> \o after

RECURSIVE SortPrefix(_, _)
SortPrefix(df, k) ==
  IF k = 0 THEN << >> ELSE InsertByTimestamp(SortPrefix(df, k - 1), df[k])

sort_values(df) == SortPrefix(df, Len(df))

Truthy(arg) == arg.kind \notin {"None", "empty"}

to_datetime(arg) == arg.v * DAY

DateError(start_date, end_date) ==
  IF Truthy(start_date) /\ Truthy(end_date)
       /\ (start_date.kind # "date" \/ end_date.kind # "date")
  THEN "Unknown datetime string format"
  ELSE ""

(* A window that ends one second early, at end_date 23:59:58 *)
InWindowOpenEnd(t, start_date, end_date) ==
  /\ t >= to_datetime(start_date)
  /\ t < to_datetime(end_date) + DAY - 1

InWindow(t, start_date, end_date) ==
  /\ t >= to_datetime(start_date)
  /\ t <= to_datetime(end_date) + DAY - 1

FilterDates(df, start_date, end_date) ==
  IF Truthy(start_date) /\ Truthy(end_date)
  THEN SelectSeq(df, LAMBDA r : InWindow(r["timestamp"], start_date, end_date))
  ELSE df

(* dropna without subset: a row goes when any of its sensor values is NaN *)
dropna_any(df, sensor) ==
  SelectSeq(df, LAMBDA r : \A c \in DOMAIN r \cap SensorIds : r[c] # NaN)

dropna(df, sensor) == SelectSeq(df, LAMBDA r : r[sensor] # NaN)

(***************************************************************************)
(* Resampling (lines 56-64).  resample('min').mean() puts the rows, which  *)
(* are in timestamp order, into one-minute bins: the frame is a record     *)
(* [start, n, bins] of n buckets, bucket k (0 <= k < n) being minute       *)
(* start + k; bins lists in order the buckets that hold samples, each      *)
(* [pos, mean], and every other bucket is NaN.                             *)
(***************************************************************************)
MinuteOf(t) == t \div MINUTE

SetMax(S) == CHOOSE x \in S : \A y \in S : y <= x

SetMin(S) == CHOOSE x \in S : \A y \in S : x <= y

RECURSIVE BinRows(_, _, _, _)
BinRows(sensor_df, sensor, first, k) ==
  IF k = 0 THEN << >>
  ELSE
    LET bins == BinRows(sensor_df, sensor, first, k - 1)
        pos == MinuteOf(sensor_df[k]["timestamp"]) - first
        value == sensor_df[k][sensor]
        top == Len(bins)
    IN  IF top > 0 /\ bins[top].pos = pos
        THEN [bins EXCEPT ![top] = [pos |-> pos, sum |-> RAdd(@.sum, value),
                                    count |-> @.count + 1]]
        ELSE Append(bins, [pos |-> pos, sum |-> value, count |-> 1])

BinSum(bin) == [pos |-> bin.pos, mean |-> bin.sum]

BinMean(bin) == [pos |-> bin.pos, mean |-> RMulFrac(bin.sum, 1, bin.count)]

RECURSIVE BinMeans(_, _)
BinMeans(bins, k) ==
  IF k = 0 THEN << >> ELSE Append(BinMeans(bins, k - 1), BinMean(bins[k]))

resample_mean(sensor_df, sensor) ==
  LET first == MinuteOf(sensor_df[1]["timestamp"])
      last == MinuteOf(sensor_df[Len(sensor_df)]["timestamp"])
      binned == BinRows(sensor_df, sensor, first, Len(sensor_df))
  IN  [start |-> first,
       n |-> last - first + 1,
       bins |-> BinMeans(binned, Len(binned))]

(* interpolate(method='linear'): the value of bucket k after filling.  A   *)
(* bucket before the first bin stays NaN, one after the last bin takes the *)
(* last value, one between two bins lies on the line through them.         *)
(* The point at j / g of the way from a to b, in one fraction *)
Between(a, b, j, g) ==
  Rat(a[1] * b[2] * (g - j) + b[1] * a[2] * j, a[2] * b[2] * g)

InterpolateAt(bins, k) ==
  LET i == Cardinality({j \in DOMAIN bins : bins[j].pos <= k})
  IN  IF i = 0 THEN NaN
      ELSE IF bins[i].pos = k \/ i = Len(bins) THEN bins[i].mean
      ELSE LET p == bins[i]
               q == bins[i + 1]
           IN  Between(p.mean, q.mean, k - p.pos, q.pos - p.pos)

(* reset_index and dropna (lines 63-64): the buckets that hold a value, in *)
(* order: len rows, row[i] = <<timestamp, value>>.  After interpolate only *)
(* the buckets before the first bin are NaN.                               *)
ResetDropna(frame) ==
  IF Len(frame.bins) = 0 THEN [len |-> 0, row |-> << >>]
  ELSE LET lead == frame.bins[1].pos
       IN  [len |-> frame.n - lead,
            row |-> [i \in 1 .. frame.n - lead |->
                       <<(frame.start + lead + i - 1) * MINUTE,
                         InterpolateAt(frame.bins, lead + i - 1)>>]]

(* sensor_df as it is after lines 56-64, before any downsampling *)
Resampled(sensor_df, sensor) == ResetDropna(resample_mean(sensor_df, sensor))

(***************************************************************************)
(* Downsampling (lines 72-74).  np.linspace(0, stop, num) computes         *)
(* i * (stop / (num - 1)) in IEEE doubles and sets the last element to     *)
(* stop; astype(int) truncates.  The truncation differs from the exact     *)
(* floor only where i * stop / (num - 1) is an integer and the double      *)
(* product falls just below it: RoundedBelow lists those <<stop, i>> for   *)
(* num = 300 and every stop the specifications below can produce.          *)
(***************************************************************************)
RoundedBelow ==
  {<<338, 23>>, <<338, 46>>, <<338, 92>>, <<338, 184>>, <<338, 207>>}

LinspaceNoEndpoint(i, stop, num) == (i * (stop + 1)) \div num

LinspaceIndex(i, stop, num) ==
  IF i = num - 1 THEN stop
  ELSE IF <<stop, i>> \in RoundedBelow THEN (i * stop) \div (num - 1) - 1
  ELSE (i * stop) \div (num - 1)

(* No cap: the series is charted whole whatever its length *)
KeepAll(rows) == rows

Downsample(rows) ==
  IF rows.len > MAX_POINTS
  THEN [len |-> MAX_POINTS,
        row |-> [i \in 1 .. MAX_POINTS |->
                   rows.row[LinspaceIndex(i - 1, rows.len - 1, MAX_POINTS) + 1]]]
  ELSE rows

(***************************************************************************)
(* Chart series and statistics (lines 77-88)                               *)
(***************************************************************************)
strftime(t) ==
  [day |-> t \div DAY,
   hour |-> (t % DAY) \div (MINUTE * MINUTE),
   minute |-> (t % (MINUTE * MINUTE)) \div MINUTE,
   second |-> t % MINUTE]

(* tolist: the column as a list *)
tolist(column) == column \o << >>

ChartOf(rows) ==
  LET listed == tolist([i \in 1 .. rows.len |-> rows.row[i]])
  IN  [timestamps |-> tolist([i \in 1 .. rows.len |-> strftime(listed[i][1])]),
       values |-> tolist([i \in 1 .. rows.len |-> listed[i][2]])]

StatsOf(values) ==
  [min |-> SeqMin(values),
   max |-> SeqMax(values),
   mean |-> SeqMean(values),
   current |-> values[Len(values)]]

ZeroStats == [min |-> <<0, 1>>, max |-> <<0, 1>>, mean |-> <<0, 1>>]

(* A dict stats that lives at module level and is never cleared: a call    *)
(* starts from the stats of the call before it.                            *)
LeakedStats == IF call.made THEN call.bundle.stats ELSE EmptyDict

(***************************************************************************)
(* The dict stats starts empty in every call (line 47).                    *)
(***************************************************************************)
EmptyStats == EmptyDict

(***************************************************************************)
(* One pass of the loop over SENSORS (lines 50-90), for one sensor, on the *)
(* accumulated stats and chart_data.                                       *)
(***************************************************************************)
ProcessSensor(df, columns, sensor, stats, chart_data) ==
  IF sensor \notin columns THEN [stats |-> stats, chart_data |-> chart_data]
  ELSE
    LET sensor_df == dropna(df, sensor)
    IN  IF Len(sensor_df) = 0
        THEN [stats |-> (sensor :> ZeroStats) @@ stats, chart_data |-> chart_data]
        ELSE
          LET rows == Resampled(sensor_df, sensor)
          IN  IF rows.len = 0
              THEN [stats |-> (sensor :> ZeroStats) @@ stats, chart_data |-> chart_data]
              ELSE
                LET shown == Downsample(rows)
                    chart == ChartOf(shown)
                IN  [stats |-> (sensor :> StatsOf(chart.values)) @@ stats,
                     chart_data |-> (sensor :> chart) @@ chart_data]

(* The loop, up to sensor number k.  fault names the sensor during whose   *)
(* processing the runtime raises (a MemoryError in resample, say), or is   *)
(* "" when nothing is raised.                                              *)
RECURSIVE SensorLoop(_, _, _, _)
SensorLoop(df, columns, fault, k) ==
  IF k = 0 THEN [err |-> "", stats |-> EmptyStats, chart_data |-> EmptyDict]
  ELSE
    LET done == SensorLoop(df, columns, fault, k - 1)
        sensor == SENSORS[k]
    IN  IF done.err # "" THEN done
        ELSE IF sensor = fault /\ sensor \in columns
        THEN [err |-> "Unable to allocate", stats |-> done.stats,
              chart_data |-> done.chart_data]
        ELSE LET step == ProcessSensor(df, columns, sensor, done.stats, done.chart_data)
             IN  [err |-> "", stats |-> step.stats, chart_data |-> step.chart_data]

(* The earliest timestamp in place of the latest *)
EarliestUpdate(df) ==
  IF Len(df) = 0 THEN None
  ELSE Timestamp(SetMin({df[i]["timestamp"] : i \in DOMAIN df}))

LastUpdate(df) ==
  IF Len(df) = 0 THEN None
  ELSE Timestamp(SetMax({df[i]["timestamp"] : i \in DOMAIN df}))

(***************************************************************************)
(* process_data (lines 24-107): the try block, then the bundle returned by *)
(* its last line or by the except clause.                                  *)
(***************************************************************************)
(* An except clause that hands back what the loop had filled in so far *)
PartialBundle(error, stats, chart_data) ==
  [stats |-> stats, chart_data |-> chart_data, data_available |-> FALSE,
   error |-> error]

ExceptBundle(error, stats, chart_data) ==
  [stats |-> EmptyDict, chart_data |-> EmptyDict, data_available |-> FALSE,
   error |-> error]

SuccessBundle(stats, chart_data, last_update) ==
  [stats |-> stats, chart_data |-> chart_data, data_available |-> TRUE,
   last_update |-> last_update]

(* df as it is after lines 27-44, when none of them raises *)
FilteredFrame(file, start_date, end_date) ==
  FilterDates(sort_values(ConvertSensors(file.columns, file.rows)),
              start_date, end_date)

process_data(file, start_date, end_date, fault) ==
  LET loaded == read_csv(file)
      columns == loaded.columns
  IN  IF loaded.err # "" THEN ExceptBundle(loaded.err, EmptyDict, EmptyDict)
      ELSE IF to_datetime_error(columns, loaded.df) # ""
      THEN ExceptBundle(to_datetime_error(columns, loaded.df), EmptyDict, EmptyDict)
      ELSE IF DateError(start_date, end_date) # ""
      THEN ExceptBundle(DateError(start_date, end_date), EmptyDict, EmptyDict)
      ELSE
        LET df == FilteredFrame(file, start_date, end_date)
            loop == SensorLoop(df, columns, fault, Len(SENSORS))
        IN  IF loop.err # ""
            THEN ExceptBundle(loop.err, loop.stats, loop.chart_data)
            ELSE SuccessBundle(loop.stats, loop.chart_data, LastUpdate(df))

(***************************************************************************)
(* State: csv is the file at CSV_PATH; call is the latest invocation of    *)
(* process_data (its inputs and the bundle it returned), NoCall before the *)
(* first; seen is an earlier invocation an observer kept.                  *)
(***************************************************************************)
NoCall ==
  [made |-> FALSE, file |-> NoFile, start_date |-> None, end_date |-> None,
   fault |-> "", bundle |-> ExceptBundle("", EmptyDict, EmptyDict)]

CallOf(file, start_date, end_date, fault) ==
  [made |-> TRUE, file |-> file, start_date |-> start_date, end_date |-> end_date,
   fault |-> fault, bundle |-> process_data(file, start_date, end_date, fault)]

(* The external writer of the file *)
AppendRow(row) ==
  /\ csv.kind = "table"
  /\ Len(csv.rows) < MaxRows
  /\ DOMAIN row = csv.columns
  /\ csv' = Table(csv.columns, Append(csv.rows, row))
  /\ UNCHANGED <<call, seen>>

Rotate(columns) ==
  /\ csv # Table(columns, << >>)
  /\ csv' = Table(columns, << >>)
  /\ UNCHANGED <<call, seen>>

Remove ==
  /\ csv # NoFile
  /\ csv' = NoFile
  /\ UNCHANGED <<call, seen>>

Corrupt ==
  /\ csv # Garbage
  /\ csv' = Garbage
  /\ UNCHANGED <<call, seen>>

(* The route handler index (lines 109-139) calling process_data *)
index(start_date, end_date, fault, keep) ==
  /\ call' = CallOf(csv, start_date, end_date, fault)
  /\ seen' = IF keep THEN call' ELSE seen
  /\ UNCHANGED csv

(***************************************************************************)
(* Inputs.  The rows the writer can append to a file with the given        *)
(* columns: a timestamp from times, every sensor cell from cells, every    *)
(* other column a text cell.                                               *)
(***************************************************************************)
RowsOver(columns, times, cells) ==
  LET sensors == columns \cap SensorIds
      others == columns \ (SensorIds \cup {"timestamp"})
      rest == [c \in others |-> Junk]
  IN  {IF "timestamp" \in columns
       THEN ("timestamp" :> t) @@ cs @@ rest
       ELSE cs @@ rest : t \in times, cs \in [sensors -> cells]}

InitOn(columns) ==
  /\ csv = Table(columns, << >>)
  /\ call = NoCall
  /\ seen = NoCall

(***************************************************************************)
(* SpecSeries: one sensor, samples in the same minute, in neighbouring     *)
(* minutes and a few minutes apart.  The file is written, then read.       *)
(***************************************************************************)
SeriesColumns == {"timestamp", "pressure"}

SeriesTimes == {0, 30, MINUTE, 2 * MINUTE, 4 * MINUTE + 20}

SeriesCells == {Blank, Num(1), Num(3), Num(5)}

InitSeries == InitOn(SeriesColumns)

NextSeries ==
  \/ /\ ~call.made
     /\ \E row \in RowsOver(csv.columns, SeriesTimes, SeriesCells) : AppendRow(row)
  \/ index(None, None, "", FALSE)

SpecSeries == InitSeries /\ [][NextSeries]_vars

(***************************************************************************)
(* SpecLong: one sensor, samples about MAX_POINTS minutes apart, so that   *)
(* the resampled series is at, just over and well over the cap.            *)
(***************************************************************************)
LongTimes ==
  {0, (MAX_POINTS - 1) * MINUTE, MAX_POINTS * MINUTE, (MAX_POINTS + 38) * MINUTE}

LongCells == {Num(1), Num(5)}

InitLong == InitOn(SeriesColumns)

NextLong ==
  \/ /\ ~call.made
     /\ \E row \in RowsOver(csv.columns, LongTimes, LongCells) : AppendRow(row)
  \/ index(None, None, "", FALSE)

SpecLong == InitLong /\ [][NextLong]_vars

(***************************************************************************)
(* SpecWindow: rows on the last second of a day and on the first second of *)
(* the next, read once under every combination of absent, empty and        *)
(* supplied start_date and end_date.                                       *)
(***************************************************************************)
WindowTimes == {DAY - 1, DAY, 2 * DAY - 1, 2 * DAY}

WindowCells == {Blank, Num(1)}

WindowDates == {None, Date(1), Date(2)}

WindowArgs ==
  (WindowDates \X WindowDates) \cup {<<EmptyString, Date(1)>>, <<Date(1), EmptyString>>}

InitWindow == InitOn(SeriesColumns)

NextWindow ==
  \/ /\ ~call.made
     /\ \E row \in RowsOver(csv.columns, WindowTimes, WindowCells) : AppendRow(row)
  \/ /\ ~call.made
     /\ \E args \in WindowArgs : index(args[1], args[2], "", FALSE)

SpecWindow == InitWindow /\ [][NextWindow]_vars

(***************************************************************************)
(* Spec: the file with two sensors, with a sensor and a column that is no  *)
(* sensor, or without a timestamp column; missing; unparseable; cells that *)
(* are numbers or other text, timestamps that are unparseable; dates that  *)
(* are absent, dates and no dates; a sensor step that raises.  The file is *)
(* written, then read.                                                     *)
(***************************************************************************)
Headers ==
  {{"timestamp", "pressure", "temperature"},
   {"timestamp", "temperature", "pumpRunning"},
   {"pressure", "temperature"}}

Times == {0, MINUTE + 30, BadTime}

Cells == {Junk, Num(2)}

Args == {<<None, None>>, <<Date(0), Date(0)>>, <<Date(1), Date(1)>>, <<BadDate, Date(0)>>}

Faults == {"", "temperature"}

Init == InitOn({"timestamp", "pressure", "temperature"})

Next ==
  \/ /\ ~call.made
     /\ \E row \in RowsOver(csv.columns, Times, Cells) : AppendRow(row)
  \/ /\ ~call.made
     /\ \E columns \in Headers : Rotate(columns)
  \/ /\ ~call.made
     /\ Remove
  \/ /\ ~call.made
     /\ Corrupt
  \/ \E args \in Args, fault \in Faults : index(args[1], args[2], fault, FALSE)

Spec == Init /\ [][Next]_vars

(***************************************************************************)
(* SpecCalls: calls of process_data in any number and order, the file      *)
(* changing between them; an observer keeps one of the calls.              *)
(***************************************************************************)
CallsHeaders == {{"timestamp", "pressure"}, {"timestamp"}}

CallsTimes == {0, MINUTE + 30}

CallsCells == {Num(2)}

CallsArgs == {<<None, None>>, <<Date(1), Date(1)>>, <<BadDate, Date(0)>>}

InitCalls == InitOn({"timestamp", "pressure"})

NextCalls ==
  \/ \E row \in RowsOver(csv.columns, CallsTimes, CallsCells) : AppendRow(row)
  \/ \E columns \in CallsHeaders : Rotate(columns)
  \/ Remove
  \/ \E args \in CallsArgs, keep \in (IF seen.made THEN {FALSE} ELSE BOOLEAN) :
       index(args[1], args[2], "", keep)

SpecCalls == InitCalls /\ [][NextCalls]_vars

(***************************************************************************)
(* SpecShape: files with two sensors, with one sensor and a column that is *)
(* no sensor, and with no sensor; samples in one minute and MAX_POINTS     *)
(* minutes apart; read once, whole or through a window that holds no row.  *)
(***************************************************************************)
ShapeHeaders ==
  {{"timestamp", "pressure", "temperature"},
   {"timestamp", "humidity", "pumpRunning"},
   {"timestamp"}}

ShapeTimes == {0, 30, MAX_POINTS * MINUTE}

ShapeCells == {Junk, Num(2)}

ShapeArgs == {<<None, None>>, <<Date(1), Date(1)>>}

InitShape == InitOn({"timestamp", "pressure", "temperature"})

NextShape ==
  \/ /\ ~call.made
     /\ \E row \in RowsOver(csv.columns, ShapeTimes, ShapeCells) : AppendRow(row)
  \/ /\ ~call.made
     /\ \E columns \in ShapeHeaders : Rotate(columns)
  \/ /\ ~call.made
     /\ \E args \in ShapeArgs : index(args[1], args[2], "", FALSE)

SpecShape == InitShape /\ [][NextShape]_vars

(***************************************************************************)
(* Definitions shared by the properties below                              *)
(***************************************************************************)
Succeeded == call.made /\ call.bundle.data_available

Charted == IF Succeeded THEN DOMAIN call.bundle.chart_data ELSE {}

(* The sensor's series of the latest call before downsampling *)
FullSeries(sensor) ==
  Resampled(dropna(FilteredFrame(call.file, call.start_date, call.end_date), sensor),
            sensor)

FullValues(sensor) ==
  LET full == FullSeries(sensor) IN tolist([i \in 1 .. full.len |-> full.row[i][2]])

(* The sensor's valid samples of the latest call, in timestamp order *)
ValidSamples(sensor) ==
  dropna(FilteredFrame(call.file, call.start_date, call.end_date), sensor)

ValuesOf(samples, sensor) == [i \in DOMAIN samples |-> samples[i][sensor]]

(* The time a chart timestamp denotes, in seconds *)
EpochOf(stamp) ==
  stamp.day * DAY + stamp.hour * MINUTE * MINUTE + stamp.minute * MINUTE + stamp.second

(* Nothing in the call raises: the file is a table with a timestamp column *)
(* and parseable timestamps, the dates are dates, no sensor step fails     *)
Clean(c) ==
  /\ c.made
  /\ c.file.kind = "table"
  /\ "timestamp" \in c.file.columns
  /\ \A i \in DOMAIN c.file.rows : c.file.rows[i]["timestamp"] # BadTime
  /\ BadDate \notin {c.start_date, c.end_date}
  /\ c.fault = ""

(***************************************************************************)
(* C1: for every sensor whose resampled series has more than 300 points,   *)
(* the min, max and mean in stats are those of the full resampled series,  *)
(* not those of the 300-point display series.                              *)
(* The code computes them after line 74 has replaced sensor_df by the      *)
(* downsampled frame, so this fails.                                       *)
(***************************************************************************)
C1_StatsOfFullSeries ==
  \A sensor \in Charted :
    FullSeries(sensor).len > MAX_POINTS =>
      LET values == FullValues(sensor)
          stats == call.bundle.stats[sensor]
      IN  /\ stats.min = SeqMin(values)
          /\ stats.max = SeqMax(values)
          /\ stats.mean = SeqMean(values)

(***************************************************************************)
(* C2: a series of n <= 300 points is charted whole and unchanged; of a    *)
(* series of n > 300 points exactly 300 are charted, taken at strictly     *)
(* increasing positions of the series, the first being position 0 and the  *)
(* last position n - 1.                                                    *)
(***************************************************************************)
PositionOf(full, stamp) == (EpochOf(stamp) - full.row[1][1]) \div MINUTE

C2_Downsampling ==
  \A sensor \in Charted :
    LET full == FullSeries(sensor)
        chart == call.bundle.chart_data[sensor]
        shown == Len(chart.timestamps)
        pos == [i \in 1 .. shown |-> PositionOf(full, chart.timestamps[i])]
    IN  /\ Len(chart.values) = shown
        /\ shown = IF full.len > MAX_POINTS THEN MAX_POINTS ELSE full.len
        /\ pos[1] = 0
        /\ pos[shown] = full.len - 1
        /\ \A i \in 1 .. shown - 1 : pos[i] < pos[i + 1]
        /\ \A i \in 1 .. shown :
             /\ chart.timestamps[i] = strftime(full.row[pos[i] + 1][1])
             /\ chart.values[i] = full.row[pos[i] + 1][2]

C2_Witness ==
  /\ "pressure" \in Charted
  /\ FullSeries("pressure").len = MAX_POINTS + 39
  /\ Len(call.bundle.chart_data["pressure"].values) = MAX_POINTS

(***************************************************************************)
(* C3: when start_date and end_date are both supplied, a row is retained   *)
(* if and only if its timestamp lies between start_date 00:00:00 and       *)
(* end_date 23:59:59, that is, on a calendar day from start_date to        *)
(* end_date; when either is absent no row is removed.  Hence the bundle is *)
(* the one an unfiltered call returns on the file cut down to the rows of  *)
(* those days.                                                             *)
(***************************************************************************)
DayOf(t) == t \div DAY

Supplied(arg) == arg \notin {None, EmptyString}

RowsOfDays(rows, start_date, end_date) ==
  IF Supplied(start_date) /\ Supplied(end_date)
  THEN SelectSeq(rows, LAMBDA r : /\ start_date.v <= DayOf(r["timestamp"])
                                  /\ DayOf(r["timestamp"]) <= end_date.v)
  ELSE rows

C3_DateFilter ==
  Succeeded =>
    LET kept == RowsOfDays(call.file.rows, call.start_date, call.end_date)
        cut == Table(call.file.columns, kept)
    IN  /\ FilteredFrame(call.file, call.start_date, call.end_date)
             = FilteredFrame(cut, None, None)
        /\ call.bundle = process_data(cut, None, None, call.fault)

(* A row at end_date 23:59:59 is kept, one at end_date+1 00:00:00 dropped *)
C3_Witness ==
  /\ Succeeded
  /\ call.start_date = Date(1) /\ call.end_date = Date(1)
  /\ \E i, j \in DOMAIN call.file.rows :
       /\ call.file.rows[i]["timestamp"] = 2 * DAY - 1
       /\ call.file.rows[j]["timestamp"] = 2 * DAY
  /\ call.bundle.last_update = Timestamp(2 * DAY - 1)

(***************************************************************************)
(* C4: a call in which loading or a processing step fails (file missing or *)
(* unreadable, no timestamp column, unparseable timestamp or date, a       *)
(* sensor step that raises) returns the bundle data_available = False,     *)
(* stats = {}, chart_data = {} with a non-empty error and nothing else:    *)
(* what earlier sensors had contributed is not in it.  A call in which     *)
(* nothing fails returns data_available = True.                            *)
(***************************************************************************)
Fails(c) ==
  \/ c.file.kind # "table"
  \/ "timestamp" \notin c.file.columns
  \/ \E i \in DOMAIN c.file.rows : c.file.rows[i]["timestamp"] = BadTime
  \/ Supplied(c.start_date) /\ Supplied(c.end_date)
       /\ BadDate \in {c.start_date, c.end_date}
  \/ c.fault \in c.file.columns

C4_AllOrNothing ==
  call.made =>
    /\ Fails(call) <=> ~call.bundle.data_available
    /\ ~call.bundle.data_available =>
         /\ DOMAIN call.bundle = {"stats", "chart_data", "data_available", "error"}
         /\ DOMAIN call.bundle.stats = {}
         /\ DOMAIN call.bundle.chart_data = {}
         /\ call.bundle.error # ""

(* The temperature step raises after pressure has been charted *)
C4_Witness ==
  /\ call.made
  /\ ~call.bundle.data_available
  /\ call.fault = "temperature"
  /\ {"timestamp", "pressure", "temperature"} \subseteq call.file.columns
  /\ Len(call.file.rows) > 0
  /\ \A i \in DOMAIN call.file.rows :
       /\ call.file.rows[i]["timestamp"] # BadTime
       /\ call.file.rows[i]["pressure"] = Num(2)
  /\ call.start_date = None

(***************************************************************************)
(* C5: a sensor whose column is present but holds no valid number in the   *)
(* rows of the window gets the stats {min: 0, max: 0, mean: 0} without     *)
(* 'current' and no chart series; the call still succeeds, and the stats   *)
(* and chart series of every other sensor are those the call returns when  *)
(* the sensor's column is filled with numbers.                             *)
(***************************************************************************)
Filled(file, sensor) ==
  Table(file.columns,
        [i \in DOMAIN file.rows |-> [file.rows[i] EXCEPT ![sensor] = Num(2)]])

EntryOf(dict, key) == IF key \in DOMAIN dict THEN <<dict[key]>> ELSE << >>

SensorEmpty(c, sensor) ==
  /\ sensor \in c.file.columns
  /\ LET kept == RowsOfDays(c.file.rows, c.start_date, c.end_date)
     IN  \A i \in DOMAIN kept : kept[i][sensor].text # "num"

C5_SensorEmptyIsLocal ==
  Clean(call) =>
    \A sensor \in SensorIds :
      SensorEmpty(call, sensor) =>
        LET filled == process_data(Filled(call.file, sensor), call.start_date,
                                   call.end_date, call.fault)
        IN  /\ call.bundle.data_available
            /\ call.bundle.stats[sensor] = [min |-> <<0, 1>>, max |-> <<0, 1>>,
                                            mean |-> <<0, 1>>]
            /\ sensor \notin DOMAIN call.bundle.chart_data
            /\ \A other \in SensorIds \ {sensor} :
                 /\ EntryOf(call.bundle.stats, other) = EntryOf(filled.stats, other)
                 /\ EntryOf(call.bundle.chart_data, other)
                      = EntryOf(filled.chart_data, other)

(* pressure has no number in two rows, temperature is charted from both *)
C5_Witness ==
  /\ Clean(call)
  /\ SensorEmpty(call, "pressure")
  /\ Len(call.file.rows) = 2
  /\ "temperature" \in Charted
  /\ Len(call.bundle.chart_data["temperature"].values) = 2
  /\ "current" \in DOMAIN call.bundle.stats["temperature"]
  /\ "current" \notin DOMAIN call.bundle.stats["pressure"]

(***************************************************************************)
(* C6: the 'current' statistic of a sensor is the value of its             *)
(* chronologically last valid sample, also when several samples fall in    *)
(* the last minute.  Stated for the samples whose latest timestamp is      *)
(* unique.  The code reports the mean of the last one-minute bucket, so    *)
(* this fails.                                                             *)
(***************************************************************************)
C6_CurrentIsLastSample ==
  \A sensor \in Charted :
    LET samples == ValidSamples(sensor)
        last == samples[Len(samples)]
    IN  (\A i \in 1 .. Len(samples) - 1 : samples[i]["timestamp"] < last["timestamp"])
          => call.bundle.stats[sensor].current = last[sensor]

(***************************************************************************)
(* C7: the resampled series has one bucket for every whole minute from the *)
(* minute of the first valid sample to the minute of the last one and none *)
(* outside; a bucket with samples holds their arithmetic mean, a bucket    *)
(* without samples the value on the line between the nearest populated     *)
(* buckets before and after it; a single sample gives a single bucket.     *)
(* Checked on the charted series, which is the whole resampled series when *)
(* it has at most MAX_POINTS points.                                       *)
(***************************************************************************)
SamplesInMinute(samples, m) ==
  SelectSeq(samples, LAMBDA r : MinuteOf(r["timestamp"]) = m)

ExpectedBucket(samples, sensor, m) ==
  LET populated == {MinuteOf(samples[i]["timestamp"]) : i \in DOMAIN samples}
      here == SamplesInMinute(samples, m)
  IN  IF Len(here) > 0 THEN SeqMean(ValuesOf(here, sensor))
      ELSE LET p == SetMax({x \in populated : x < m})
               q == SetMin({x \in populated : x > m})
               a == SeqMean(ValuesOf(SamplesInMinute(samples, p), sensor))
               b == SeqMean(ValuesOf(SamplesInMinute(samples, q), sensor))
           IN  RAdd(a, RMulFrac(RSub(b, a), m - p, q - p))

C7_Resampling ==
  \A sensor \in Charted :
    LET samples == ValidSamples(sensor)
        chart == call.bundle.chart_data[sensor]
        first == MinuteOf(samples[1]["timestamp"])
        last == MinuteOf(samples[Len(samples)]["timestamp"])
        whole == last - first + 1 <= MAX_POINTS
    IN  /\ whole => Len(chart.timestamps) = last - first + 1
        /\ Len(samples) = 1 => Len(chart.timestamps) = 1
        /\ \A i \in DOMAIN chart.timestamps :
             LET t == EpochOf(chart.timestamps[i])
             IN  /\ t % MINUTE = 0
                 /\ first <= MinuteOf(t) /\ MinuteOf(t) <= last
                 /\ whole => MinuteOf(t) = first + i - 1
                 /\ chart.values[i] = ExpectedBucket(samples, sensor, MinuteOf(t))

(* The example: 1.0 at 00:00:00 and 3.0 at 00:02:00 give 1.0, 2.0, 3.0 *)
C7_Witness ==
  /\ "pressure" \in Charted
  /\ ValuesOf(ValidSamples("pressure"), "pressure") = <<(<<1, 1>>), (<<3, 1>>)>>
  /\ ValidSamples("pressure")[1]["timestamp"] = 0
  /\ ValidSamples("pressure")[2]["timestamp"] = 2 * MINUTE
  /\ call.bundle.chart_data["pressure"].values = <<(<<1, 1>>), (<<2, 1>>), (<<3, 1>>)>>
  /\ call.bundle.chart_data["pressure"].timestamps =
       <<strftime(0), strftime(MINUTE), strftime(2 * MINUTE)>>

(***************************************************************************)
(* C8: the min, max and mean of a sensor are the minimum, maximum and      *)
(* arithmetic mean of its valid values in the active window, whatever the  *)
(* timestamps of the samples.  The code computes them over the resampled   *)
(* (and downsampled) series, so this fails.                                *)
(***************************************************************************)
C8_StatsOfValidValues ==
  \A sensor \in Charted :
    LET values == ValuesOf(ValidSamples(sensor), sensor)
        stats == call.bundle.stats[sensor]
    IN  /\ stats.min = SeqMin(values)
        /\ stats.max = SeqMax(values)
        /\ stats.mean = SeqMean(values)

(***************************************************************************)
(* C9: in a successful bundle last_update is the latest timestamp among    *)
(* the rows of the date-filtered dataset, whether or not their sensor      *)
(* values are missing, so no chart timestamp is later than it; it is None  *)
(* exactly when that dataset has no rows, and the bundle is successful all *)
(* the same.                                                               *)
(***************************************************************************)
C9_LastUpdate ==
  (Clean(call) => Succeeded) /\
  (Succeeded =>
    LET kept == RowsOfDays(call.file.rows, call.start_date, call.end_date)
        times == {kept[i]["timestamp"] : i \in DOMAIN kept}
        last_update == call.bundle.last_update
    IN  /\ last_update = None <=> times = {}
        /\ times # {} =>
             /\ last_update.kind = "timestamp"
             /\ last_update.v \in times
             /\ \A t \in times : t <= last_update.v
        /\ \A sensor \in Charted :
             \A i \in DOMAIN call.bundle.chart_data[sensor].timestamps :
               EpochOf(call.bundle.chart_data[sensor].timestamps[i]) <= last_update.v)

(* The latest row has no pressure value and an earlier one is charted *)
C9_Witness ==
  /\ "pressure" \in Charted
  /\ Len(call.file.rows) = 2
  /\ call.file.rows[1]["pressure"] = Num(1)
  /\ call.file.rows[2]["pressure"] = Blank
  /\ call.file.rows[1]["timestamp"] < call.file.rows[2]["timestamp"]
  /\ call.bundle.last_update = Timestamp(call.file.rows[2]["timestamp"])

C11_WellFormedBundle ==
  Succeeded =>
    LET stats == call.bundle.stats
        chart_data == call.bundle.chart_data
    IN  /\ DOMAIN stats = {sensor \in SensorIds : sensor \in call.file.columns}
        /\ DOMAIN chart_data
             = {sensor \in DOMAIN stats : "current" \in DOMAIN stats[sensor]}
        /\ \A sensor \in DOMAIN chart_data :
             LET timestamps == chart_data[sensor].timestamps
                 n == Len(timestamps)
             IN  /\ Len(chart_data[sensor].values) = n
                 /\ 1 <= n /\ n <= 300
                 /\ \A i \in 1 .. n - 1 :
                      EpochOf(timestamps[i]) < EpochOf(timestamps[i + 1])

(* pressure is cut down to 300 points, temperature is a column without a   *)
(* number, humidity is no column                                           *)
C11_Witness ==
  /\ Succeeded
  /\ call.file.columns = {"timestamp", "pressure", "temperature"}
  /\ "pressure" \in Charted
  /\ FullSeries("pressure").len = 301
  /\ Len(call.bundle.chart_data["pressure"].timestamps) = 300
  /\ "temperature" \in DOMAIN call.bundle.stats
  /\ "temperature" \notin DOMAIN call.bundle.chart_data
  /\ "humidity" \notin DOMAIN call.bundle.stats

====
